---- MODULE Spec2Model ----
(***************************************************************************)
(* Model of sequential_run.py: the step orchestration loop                 *)
(* (run_sequential_steps) and the functions it calls                       *)
(* (modify_input_params, submit_job, wait_for_job_completion,              *)
(* extract_final_state, backup_files).                                     *)
(*                                                                         *)
(* Text is modelled token by token.  A token is <<kind, a, b>>:            *)
(*   <<"int", n, 0>>   a decimal integer literal such as 2 or -5           *)
(*   <<"dec", m, e>>   a decimal literal that is no integer literal,       *)
(*                     worth m * 10^e (1.5 is <<"dec", 15, -1>>)           *)
(*   <<"word", 0, 0>>  text that is no number                              *)
(*   <<"None", 0, 0>>  the text None (str(None))                           *)
(*   <<"sci", m, e>>   the output of the format {:.5e}: a six digit        *)
(*                     signed mantissa m and a decimal exponent e          *)
(* A text line is a sequence of tokens (line.split()), a file is           *)
(* [exists, lines].  The parameter file is [exists, text] instead, its     *)
(* text a sequence of characters, which readlines() cuts into lines that   *)
(* keep their line terminator "\n".                                        *)
(***************************************************************************)
EXTENDS Integers, Sequences, FiniteSets, TLC

VARIABLES
    STEPS,        \* config.STEPS: sequence of [params, final_step]
    NUM_CHUNKS,   \* CONFIG['NUM_CHUNKS']
    pc,           \* where the program stands
    step_idx,     \* step_idx of run_sequential_steps (1-based), 0 before the loop
    job_id,       \* job_id of run_sequential_steps
    outcome,      \* how run_sequential_steps ended: "running", "True", "False", "raised"
    trace,        \* the stages performed so far, in order: <<step, stage, result>>,
                  \* result "ok", "fail" (None or False was returned) or "raised"
    input_file,   \* WORK_DIR/inputN.in
    pxyz,         \* WORK_DIR/pxyz.in
    dat,          \* WORK_DIR/PELOOP.%08d.dat, by index
    backups,      \* WORK_DIR/step<k>_backup, by step number
    queue,        \* the scheduler: the steps whose job is queued or running, and
                  \* the results of the squeue queries of the current wait
    call          \* the arguments, the state before and the result of the last call
                  \* (in a run: of the last call of submit_job and of
                  \* extract_final_state as well)

vars == <<STEPS, NUM_CHUNKS, pc, step_idx, job_id, outcome, trace, input_file,
          pxyz, dat, backups, queue, call>>

(***************************************************************************)
(* Bounds of the model.                                                    *)
(***************************************************************************)
MaxChunks == 2      \* NUM_CHUNKS ranges over 0..MaxChunks
MaxLines == 2       \* data lines in the chunk files of one extraction, in total

(***************************************************************************)
(* Tokens and numbers.                                                     *)
(***************************************************************************)
IntTok(n) == <<"int", n, 0>>
DecTok(m, e) == <<"dec", m, e>>
WordTok == <<"word", 0, 0>>
NoneTok == <<"None", 0, 0>>
SciTok(m, e) == <<"sci", m, e>>

\* int(s) succeeds on integer literals only (ValueError otherwise).
IsIntText(t) == t[1] = "int"
py_int(t) == t[2]

\* float(s) succeeds on integer and decimal literals; the value is kept as the
\* decimal <<m, e>> = m * 10^e (the menus hold values a double represents exactly).
IsFloatText(t) == t[1] \in {"int", "dec"}
py_float(t) == IF t[1] = "int" THEN <<t[2], 0>> ELSE <<t[2], t[3]>>

Abs(x) == IF x < 0 THEN -x ELSE x

RECURSIVE Pow10(_)
Pow10(n) == IF n <= 0 THEN 1 ELSE 10 * Pow10(n - 1)

RECURSIVE NumDigits(_)
NumDigits(m) == IF m < 10 THEN 1 ELSE 1 + NumDigits(m \div 10)

\* n / d rounded to the nearest integer, ties to even (n >= 0, d > 0)
RoundHalfEven(n, d) ==
    LET q == n \div d
        r == n % d
    IN  IF 2 * r > d THEN q + 1
        ELSE IF 2 * r < d THEN q
        ELSE IF q % 2 = 0 THEN q ELSE q + 1

\* f"{v:.5e}": one digit, five decimals, exponent
format_5e(v) ==
    LET m == v[1]
        e == v[2]
        a == Abs(m)
        d == NumDigits(a)
        sgn == IF m < 0 THEN -1 ELSE 1
    IN  IF m = 0 THEN SciTok(0, 0)
        ELSE IF d <= 6 THEN SciTok(sgn * a * Pow10(6 - d), e + d - 1)
        ELSE LET r == RoundHalfEven(a, Pow10(d - 6))
             IN  IF r = Pow10(6) THEN SciTok(sgn * Pow10(5), e + d)
                 ELSE SciTok(sgn * r, e + d - 1)

(***************************************************************************)
(* Files.                                                                  *)
(***************************************************************************)
Absent == [exists |-> FALSE, lines |-> <<>>]
File(ls) == [exists |-> TRUE, lines |-> ls]

\* os.path.isfile / open of PELOOP.<idx>.dat
FileAt(files, idx) == IF idx \in DOMAIN files THEN files[idx] ELSE Absent

(***************************************************************************)
(* extract_final_state                                                     *)
(***************************************************************************)
\* pxx = pyy = pzz = None, nx = ny = nz = None
NoGrid ==
    [status |-> "ok", alloc |-> FALSE, nx |-> 0, ny |-> 0, nz |-> 0,
     pxx |-> <<>>, pyy |-> <<>>, pzz |-> <<>>]

\* (np_zeros filling the array with ones)
np_zeros_Ones(nx, ny, nz) ==
    [c \in (0 .. nx - 1) \X (0 .. ny - 1) \X (0 .. nz - 1) |-> <<1, 0>>]

\* np.zeros((nx, ny, nz)), indexed from zero
np_zeros(nx, ny, nz) ==
    [c \in (0 .. nx - 1) \X (0 .. ny - 1) \X (0 .. nz - 1) |-> <<0, 0>>]

\* The position numpy gives index i on an axis of length n: negative indices
\* count from the end; -1 stands for IndexError.
np_index(i, n) ==
    IF 0 <= i /\ i < n THEN i
    ELSE IF 0 - n <= i /\ i < 0 THEN i + n
    ELSE 0 - 1

\* The first chunk's header: nx, ny, nz = map(int, header[:3]) and the three
\* np.zeros; a token that is no integer or a negative dimension raises ValueError.
Allocate(g, header) ==
    IF \E n \in 1 .. 3 : ~IsIntText(header[n])
    THEN [g EXCEPT !.status = "exception"]
    ELSE LET nx == py_int(header[1])
             ny == py_int(header[2])
             nz == py_int(header[3])
         IN  IF nx < 0 \/ ny < 0 \/ nz < 0
             THEN [g EXCEPT !.status = "exception"]
             ELSE [g EXCEPT !.alloc = TRUE, !.nx = nx, !.ny = ny, !.nz = nz,
                            !.pxx = np_zeros(nx, ny, nz),
                            !.pyy = np_zeros(nx, ny, nz),
                            !.pzz = np_zeros(nx, ny, nz)]

\* The zero-based cell a data line addresses, <<-1, -1, -1>> when an index is
\* out of range for the allocated arrays.
CellOf(g, pts) ==
    LET i == np_index(py_int(pts[1]) - 1, g.nx)
        j == np_index(py_int(pts[2]) - 1, g.ny)
        k == np_index(py_int(pts[3]) - 1, g.nz)
    IN  IF i < 0 \/ j < 0 \/ k < 0 THEN <<0 - 1, 0 - 1, 0 - 1>> ELSE <<i, j, k>>

\* (StoreRecord with py and pz written to each other's array)
StoreRecord_Swapped(g, pts) ==
    IF Len(pts) < 6 THEN g
    ELSE IF \E n \in 1 .. 3 : ~IsIntText(pts[n]) THEN [g EXCEPT !.status = "exception"]
    ELSE IF \E n \in 4 .. 6 : ~IsFloatText(pts[n]) THEN [g EXCEPT !.status = "exception"]
    ELSE LET c == CellOf(g, pts)
         IN  IF c \notin DOMAIN g.pxx THEN [g EXCEPT !.status = "exception"]
             ELSE [g EXCEPT !.pxx[c] = py_float(pts[4]),
                            !.pyy[c] = py_float(pts[6]),
                            !.pzz[c] = py_float(pts[5])]

\* The body of "for line in f": short lines are skipped, int() and float()
\* raise ValueError, the array assignment raises IndexError.
StoreRecord(g, pts) ==
    IF Len(pts) < 6 THEN g
    ELSE IF \E n \in 1 .. 3 : ~IsIntText(pts[n]) THEN [g EXCEPT !.status = "exception"]
    ELSE IF \E n \in 4 .. 6 : ~IsFloatText(pts[n]) THEN [g EXCEPT !.status = "exception"]
    ELSE LET c == CellOf(g, pts)
         IN  IF c \notin DOMAIN g.pxx THEN [g EXCEPT !.status = "exception"]
             ELSE [g EXCEPT !.pxx[c] = py_float(pts[4]),
                            !.pyy[c] = py_float(pts[5]),
                            !.pzz[c] = py_float(pts[6])]

\* "for line in f" from line n on.  (The arrays after a line are bound as a
\* value, g2, so that TLC computes them once and not again at every use.)
RECURSIVE ReadLines(_, _, _)
ReadLines(g, lines, n) ==
    IF g.status # "ok" \/ n > Len(lines) THEN g
    ELSE CHOOSE r \in {ReadLines(g2, lines, n + 1) : g2 \in {StoreRecord(g, lines[n])}} : TRUE

\* (ReadChunk going on to the next chunk when a file is missing)
ReadChunk_SkipMissing(g, f) ==
    LET header == IF f.lines = <<>> THEN <<>> ELSE f.lines[1]
    IN  IF ~f.exists THEN g
        ELSE IF Len(header) < 3 THEN [g EXCEPT !.status = "bad_header"]
        ELSE CHOOSE r \in {ReadLines(g2, f.lines, 2) :
                              g2 \in {IF g.alloc THEN g ELSE Allocate(g, header)}} : TRUE

\* One pass of "for chunk in range(NUM_CHUNKS)"
ReadChunk(g, f) ==
    LET header == IF f.lines = <<>> THEN <<>> ELSE f.lines[1]
    IN  IF ~f.exists THEN [g EXCEPT !.status = "missing"]
        ELSE IF Len(header) < 3 THEN [g EXCEPT !.status = "bad_header"]
        ELSE CHOOSE r \in {ReadLines(g2, f.lines, 2) :
                              g2 \in {IF g.alloc THEN g ELSE Allocate(g, header)}} : TRUE

\* "for chunk in range(NUM_CHUNKS)" from chunk on
RECURSIVE ScanChunks(_, _, _, _, _)
ScanChunks(g, chunk, final_step, files, num) ==
    IF g.status # "ok" \/ chunk >= num THEN g
    ELSE CHOOSE r \in {ScanChunks(g2, chunk + 1, final_step, files, num) :
                          g2 \in {ReadChunk(g, FileAt(files, final_step + chunk))}} : TRUE

\* The p-th data line of pxyz.in (p from 1): nested loops over i, j, k
GridLine(g, p) ==
    LET i == (p - 1) \div (g.ny * g.nz)
        j == ((p - 1) % (g.ny * g.nz)) \div g.nz
        k == (p - 1) % g.nz
    IN  <<IntTok(i + 1), IntTok(j + 1), IntTok(k + 1),
          format_5e(g.pxx[<<i, j, k>>]),
          format_5e(g.pyy[<<i, j, k>>]),
          format_5e(g.pzz[<<i, j, k>>])>>

\* (RestartLines with the last grid point left out)
RestartLines_OneShort(g) ==
    IF ~g.alloc THEN << <<NoneTok, NoneTok, NoneTok>> >>
    ELSE << <<IntTok(g.nx), IntTok(g.ny), IntTok(g.nz)>> >>
         \o [p \in 1 .. g.nx * g.ny * g.nz - 1 |-> GridLine(g, p)]

\* What the "with open('pxyz.in', 'w')" block writes when nothing interrupts it.
\* With no chunk read, nx is None: the header line reads "None None None" and
\* range(None) raises TypeError.
RestartLines(g) ==
    IF ~g.alloc THEN << <<NoneTok, NoneTok, NoneTok>> >>
    ELSE << <<IntTok(g.nx), IntTok(g.ny), IntTok(g.nz)>> >>
         \o [p \in 1 .. g.nx * g.ny * g.nz |-> GridLine(g, p)]

\* extract_final_state(final_step) on the chunk files `files`, with NUM_CHUNKS =
\* num and pxyz.in = old.  cut >= 0 is a write that raises OSError when cut
\* lines have reached the file; cut = -1 is an undisturbed write.
extract_final_state(final_step, files, num, old, cut) ==
    LET Write(g, full) ==
            IF g.status # "ok" THEN [ret |-> FALSE, pxyz |-> old]
            ELSE IF cut >= 0 /\ cut < Len(full)
                 THEN [ret |-> FALSE, pxyz |-> File(SubSeq(full, 1, cut))]
            ELSE [ret |-> g.alloc, pxyz |-> File(full)]
    IN  CHOOSE r \in {Write(gf[1], gf[2]) :
                         gf \in {<<g, RestartLines(g)>> :
                                    g \in {ScanChunks(NoGrid, 0, final_step, files, num)}}} : TRUE

(***************************************************************************)
(* modify_input_params                                                     *)
(***************************************************************************)
RECURSIVE Flatten(_)
Flatten(lines) == IF lines = <<>> THEN <<>> ELSE Head(lines) \o Flatten(Tail(lines))

\* f.readlines(): the text cut after every "\n"; a last line without "\n" is kept
RECURSIVE SplitLines(_, _)
SplitLines(text, cur) ==
    IF text = <<>> THEN (IF cur = <<>> THEN <<>> ELSE <<cur>>)
    ELSE IF Head(text) = "\n" THEN <<Append(cur, "\n")>> \o SplitLines(Tail(text), <<>>)
    ELSE SplitLines(Tail(text), Append(cur, Head(text)))

read_input_file(f) == SplitLines(f.text, <<>>)

\* f.writelines(lines)
write_input_file(lines) == [exists |-> TRUE, text |-> Flatten(lines)]

\* The position Python gives list index i in a list of length n: negative
\* indices count from the end; -1 stands for IndexError.
list_index(i, n) ==
    IF 0 <= i /\ i < n THEN i
    ELSE IF 0 - n <= i /\ i < 0 THEN i + n
    ELSE 0 - 1

HasBang(line) == \E n \in 1 .. Len(line) : line[n] = "!"

\* (Comment cut at the last '!' instead of the first)
Comment_Last(line) ==
    LET last == CHOOSE n \in 1 .. Len(line) :
                    line[n] = "!" /\ \A m \in n + 1 .. Len(line) : line[m] # "!"
    IN  SubSeq(line, last, Len(line))

\* '!' + old_line.split('!', 1)[1]: the line from its first '!' on
Comment(line) ==
    LET first == CHOOSE n \in 1 .. Len(line) :
                     line[n] = "!" /\ \A m \in 1 .. n - 1 : line[m] # "!"
    IN  SubSeq(line, first, Len(line))

\* (EditLine without the line terminator)
EditLine_NoNewline(old_line, new_content) ==
    IF HasBang(old_line) THEN new_content \o <<" ">> \o Comment(old_line)
    ELSE new_content

\* The new text of a line
EditLine(old_line, new_content) ==
    IF HasBang(old_line) THEN new_content \o <<" ">> \o Comment(old_line)
    ELSE new_content \o <<"\n">>

\* "for line_key, new_content in params.items()" from item n on; params is the
\* dict in insertion order, an item is <<N, new_content>> for the key 'lineN'.
\* Gives [raised, lines]: lines[line_num - 1] raises IndexError.
RECURSIVE ApplyEdits(_, _, _)
ApplyEdits(lines, params, n) ==
    IF n > Len(params) THEN [raised |-> FALSE, lines |-> lines]
    ELSE LET line_num == params[n][1]
             at == list_index(line_num - 1, Len(lines))
         IN  IF at < 0 THEN [raised |-> TRUE, lines |-> lines]
             ELSE ApplyEdits([lines EXCEPT ![at + 1] = EditLine(lines[at + 1], params[n][2])],
                             params, n + 1)

\* (modify_input_params saving the lines edited so far when an edit raises)
modify_input_params_SavesPartial(f, params) ==
    IF ~f.exists THEN [raised |-> TRUE, file |-> f]
    ELSE LET r == ApplyEdits(read_input_file(f), params, 1)
         IN  [raised |-> r.raised, file |-> write_input_file(r.lines)]

\* modify_input_params(params) on the parameter file f: [raised, file].  The
\* file is written only after every edit went through; open() of a file that
\* does not exist raises too.
modify_input_params(f, params) ==
    IF ~f.exists THEN [raised |-> TRUE, file |-> f]
    ELSE LET r == ApplyEdits(read_input_file(f), params, 1)
         IN  IF r.raised THEN [raised |-> TRUE, file |-> f]
             ELSE [raised |-> FALSE, file |-> write_input_file(r.lines)]

(***************************************************************************)
(* The inputs the specifications draw from.                                *)
(***************************************************************************)
\* Headers of a chunk file: two tokens only; a token that is no integer; grids.
ShortHeader == <<IntTok(2), IntTok(1)>>
WordHeader == <<WordTok, IntTok(1), IntTok(1)>>
BadHeaders == {ShortHeader, WordHeader}
Grids == {<<2, 1, 1>>, <<1, 2, 2>>}
GridHeader(d) == <<IntTok(d[1]), IntTok(d[2]), IntTok(d[3])>>

\* Data lines: a record i j k px py pz, or a line of five tokens.  Record
\* indices start at 1, as a chunk's records do; an index past the grid of the
\* first header is possible.
ValuesA == <<IntTok(3), IntTok(0 - 5), IntTok(1234565)>>
ValuesB == <<DecTok(15, 0 - 1), IntTok(1234567), IntTok(0)>>
Record(c, v) == <<IntTok(c[1]), IntTok(c[2]), IntTok(c[3]), v[1], v[2], v[3]>>
ShortLine == <<IntTok(1), IntTok(1), IntTok(1), IntTok(3), IntTok(3)>>
WordLine == <<IntTok(1), IntTok(1), IntTok(1), IntTok(3), WordTok, IntTok(3)>>
DataLines ==
    {Record(<<1, 1, 1>>, ValuesA), Record(<<1, 1, 1>>, ValuesB), Record(<<2, 1, 1>>, ValuesA),
     ShortLine, WordLine}

\* The chunk files that open with a good header and hold k data lines
GoodChunks(k) == {File(<<GridHeader(d)>> \o ls) : d \in Grids, ls \in [1 .. k -> DataLines]}

\* The chunk files that hold no data: absent, or with a bad header
BadChunks == {Absent} \cup {File(<<h>>) : h \in BadHeaders}

\* The data lines of the chunk files of a directory, counted
RECURSIVE CountLines(_, _)
CountLines(files, todo) ==
    IF todo = {} THEN 0
    ELSE LET idx == CHOOSE x \in todo : TRUE
         IN  (IF files[idx].exists /\ Len(files[idx].lines) > 0
              THEN Len(files[idx].lines) - 1 ELSE 0)
             + CountLines(files, todo \ {idx})

\* The directory with PELOOP.<idx>.dat = f added
WithChunk(files, idx, f) ==
    [x \in DOMAIN files \cup {idx} |-> IF x = idx THEN f ELSE files[x]]

FinalSteps == {1, 3}

\* A pxyz.in left by an earlier run
OldRestart == File(<< <<IntTok(1), IntTok(1), IntTok(1)>>,
                      <<IntTok(1), IntTok(1), IntTok(1), SciTok(700000, 0), SciTok(0, 0), SciTok(0, 0)>> >>)

\* Writes of pxyz.in: undisturbed, or failing when the header line is in the file
Cuts == {0 - 1, 1}

\* Lines of the new pxyz.in on disk when the process is terminated in the write
KillPoints == {0, 2}

NoCall == [fn |-> "none"]

(***************************************************************************)
(* SpecExtract: one call of extract_final_state on any chunk directory.    *)
(***************************************************************************)
InitExtract ==
    /\ NUM_CHUNKS \in 0 .. MaxChunks
    /\ \E fs \in FinalSteps : STEPS = <<[params |-> <<>>, final_step |-> fs]>>
    /\ dat = <<>>
    /\ pxyz \in {Absent, OldRestart}
    /\ pc = "call"
    /\ step_idx = 1
    /\ job_id = "None"
    /\ outcome = "running"
    /\ trace = <<>>
    /\ input_file = [exists |-> FALSE, text |-> <<>>]
    /\ backups = <<>>
    /\ queue = "idle"
    /\ call = NoCall

\* The simulation job leaves its chunk files, rank after rank (a rank may be
\* left out); extraction may be called on whatever is there.
WriteChunk ==
    /\ pc = "call"
    /\ Cardinality(DOMAIN dat) < NUM_CHUNKS
    /\ LET idx == STEPS[1].final_step + Cardinality(DOMAIN dat)
           room == MaxLines - CountLines(dat, DOMAIN dat)
       IN  \E f \in BadChunks \cup UNION {GoodChunks(k) : k \in 0 .. room} :
              dat' = WithChunk(dat, idx, f)
    /\ UNCHANGED <<STEPS, NUM_CHUNKS, pc, step_idx, job_id, outcome, trace, input_file,
                   pxyz, backups, queue, call>>

ExtractCall ==
    /\ pc = "call"
    /\ \E cut \in Cuts :
          LET r == extract_final_state(STEPS[1].final_step, dat, NUM_CHUNKS, pxyz, cut)
          IN  /\ pxyz' = r.pxyz
              /\ call' = [fn |-> "extract_final_state", before |-> pxyz,
                          ret |-> r.ret, cut |-> cut]
    /\ pc' = "returned"
    /\ UNCHANGED <<STEPS, NUM_CHUNKS, step_idx, job_id, outcome, trace, input_file,
                   dat, backups, queue>>

\* The process is terminated (SIGKILL, power loss) inside the block
\* "with open('pxyz.in', 'w')", when n lines of the new file have reached the
\* disk: open() has truncated the file, the lines are written into it in place.
\* (Taken for the writes that would have gone through: all chunks were read.)
ExtractKilled ==
    /\ pc = "call"
    /\ LET g == ScanChunks(NoGrid, 0, STEPS[1].final_step, dat, NUM_CHUNKS)
           full == RestartLines(g)
       IN  /\ g.status = "ok"
           /\ g.alloc
           /\ \E n \in KillPoints :
                 /\ n < Len(full)
                 /\ pxyz' = File(SubSeq(full, 1, n))
                 /\ call' = [fn |-> "extract_final_state", before |-> pxyz,
                             new |-> File(full), killed |-> n]
    /\ pc' = "killed"
    /\ UNCHANGED <<STEPS, NUM_CHUNKS, step_idx, job_id, outcome, trace, input_file,
                   dat, backups, queue>>

NextExtract == WriteChunk \/ ExtractCall \/ ExtractKilled

SpecExtract == InitExtract /\ [][NextExtract]_vars

(***************************************************************************)
(* SpecEdit: one call of modify_input_params on any parameter file.        *)
(***************************************************************************)
MaxFileLines == 2   \* lines of the parameter file
MaxEdits == 2       \* items of params

\* Lines of a parameter file: terminated ones, and ones that can only end a file
TermLines == {<<"a", "\n">>, <<"a", " ", "!", "b", "\n">>, <<"!", "a", "!", "b", "\n">>}
OpenLines == {<<"a">>, <<"a", "!", "b">>}

ParamFiles ==
    {[exists |-> FALSE, text |-> <<>>]}
    \cup UNION {{[exists |-> TRUE, text |-> Flatten(ls)] : ls \in [1 .. k -> TermLines]} :
                    k \in 0 .. MaxFileLines}
    \cup UNION {{[exists |-> TRUE, text |-> Flatten(ls) \o l] :
                    ls \in [1 .. k - 1 -> TermLines], l \in OpenLines} :
                    k \in 1 .. MaxFileLines}

\* Replacement texts: one line of text each, with or without a '!'
Contents == {<<"c">>, <<"c", "!", "d">>, <<>>}

\* params: items with distinct keys 'line1' .. 'line<MaxFileLines + 1>'
ParamDicts ==
    UNION {{p \in [1 .. k -> (1 .. MaxFileLines + 1) \X Contents] :
                \A m, n \in 1 .. k : m # n => p[m][1] # p[n][1]} :
               k \in 0 .. MaxEdits}

InitEdit ==
    /\ input_file \in ParamFiles
    /\ \E p \in ParamDicts : STEPS = <<[params |-> p, final_step |-> 1]>>
    /\ NUM_CHUNKS = 0
    /\ dat = <<>>
    /\ pxyz = Absent
    /\ pc = "call"
    /\ step_idx = 1
    /\ job_id = "None"
    /\ outcome = "running"
    /\ trace = <<>>
    /\ backups = <<>>
    /\ queue = "idle"
    /\ call = NoCall

EditCall ==
    /\ pc = "call"
    /\ LET r == modify_input_params(input_file, STEPS[1].params)
       IN  /\ input_file' = r.file
           /\ call' = [fn |-> "modify_input_params", before |-> input_file,
                       raised |-> r.raised]
    /\ pc' = "returned"
    /\ UNCHANGED <<STEPS, NUM_CHUNKS, step_idx, job_id, outcome, trace, pxyz,
                   dat, backups, queue>>

NextEdit == EditCall

SpecEdit == InitEdit /\ [][NextEdit]_vars

(***************************************************************************)
(* submit_job, check_job_status, backup_files                              *)
(***************************************************************************)
None == <<>>        \* Python's None, where a job identifier is expected

\* (HasMarker taking any output of sbatch for an acknowledgment)
HasMarker_AnyOutput(output) == Len(output) > 0

\* 'Submitted batch job' in output, the output taken word by word
HasMarker(output) ==
    \E n \in 1 .. Len(output) - 2 :
        /\ output[n] = "Submitted"
        /\ output[n + 1] = "batch"
        /\ output[n + 2] = "job"

\* submit_job() when sbatch ends as res = [error, returncode, stdout]:
\* [raised, job_id].  check=True turns a non-zero exit status into
\* CalledProcessError, which is caught; an sbatch that cannot be started
\* raises an OSError, which is not.
submit_job(res) ==
    IF res.error THEN [raised |-> TRUE, job_id |-> None]
    ELSE IF res.returncode # 0 THEN [raised |-> FALSE, job_id |-> None]
    ELSE IF HasMarker(res.stdout)
         THEN [raised |-> FALSE, job_id |-> <<res.stdout[Len(res.stdout)]>>]
    ELSE [raised |-> FALSE, job_id |-> None]

\* (check_job_status taking a failed query for a job that is still there)
check_job_status_ErrorBusy(id, res) ==
    IF res.error THEN TRUE
    ELSE \E n \in 1 .. Len(res.stdout) : <<res.stdout[n]>> = id

\* check_job_status(job_id) when squeue ends as res = [error, stdout]: job_id
\* in result.stdout, and False when running squeue raises
check_job_status(id, res) ==
    IF res.error THEN FALSE
    ELSE \E n \in 1 .. Len(res.stdout) : <<res.stdout[n]>> = id

\* f"step{step_num}_backup": backup directories are told apart by their number
BackupDir_Shared(step_num) == 1
BackupDir(step_num) == step_num

\* shutil.copy2(src, dst) leaves src as it is
CopySource_Moved(src) == [src EXCEPT !.exists = FALSE]
CopySource(src) == src

\* backup_files(step_num, step_name): the backup directory after the call and
\* whether the call raised.  fault names the filesystem call that raises
\* OSError, if one does.
NoBackup == [dir |-> FALSE, input |-> [exists |-> FALSE, text |-> <<>>], pxyz |-> Absent]

backup_files(old, inp, restart, fault) ==
    LET made == [old EXCEPT !.dir = TRUE]
        one == IF inp.exists THEN [made EXCEPT !.input = inp] ELSE made
        two == IF restart.exists THEN [one EXCEPT !.pxyz = restart] ELSE one
    IN  IF fault = "makedirs" THEN [raised |-> TRUE, backup |-> old]
        ELSE IF fault = "copy_input" /\ inp.exists THEN [raised |-> TRUE, backup |-> made]
        ELSE IF fault = "copy_pxyz" /\ restart.exists THEN [raised |-> TRUE, backup |-> one]
        ELSE [raised |-> FALSE, backup |-> two]

(***************************************************************************)
(* run_sequential_steps                                                    *)
(***************************************************************************)
MaxSteps == 2       \* len(STEPS) ranges over 0..MaxSteps
MaxPolls == 2       \* polls of one wait that find the job still listed

\* wait_for_job_completion: "if not check_job_status(job_id)" ends the loop,
\* anything else sleeps and polls again, however many polls there were
KeepWaiting_Timeout(listed, polls) == listed /\ polls < 1
KeepWaiting(listed, polls) == listed

\* wait_for_job_completion: the value returned when the poll `res` ends the loop
wait_for_job_completion_FailsOnError(res) == ~res.error
wait_for_job_completion(res) == TRUE

\* The decisions of the loop body.  (Each is preceded by a variant with a
\* plausible slip, which the properties below must tell apart.)
SubmitHalts_Never(id) == FALSE
SubmitHalts(id) == id = None                 \* if job_id is None: return False

WaitHalts(completed) == ~completed           \* if not wait_for_job_completion(job_id)

ExtractHalts_Never(extracted) == FALSE
ExtractHalts(extracted) == ~extracted        \* if not extract_final_state(...)

NextStepIdx_Skip(k) == k + 2
NextStepIdx(k) == k + 1                      \* enumerate(STEPS, 1)

\* The step lists the runs are given: step k ends at simulation step 2k - 1
StepParams == {<<>>, <<<<1, <<"c">>>>>>, <<<<3, <<"c">>>>>>}
StepLists ==
    UNION {[1 .. n -> StepParams] : n \in 0 .. MaxSteps}
StepConfig(ps) == [k \in 1 .. Len(ps) |-> [params |-> ps[k], final_step |-> 2 * k - 1]]

\* The parameter file of the source directory
OriginInput == [exists |-> TRUE, text |-> <<"a", " ", "!", "b", "\n", "a", "\n">>]

\* The identifier the scheduler gives the job of step k
JobIdOf(k) == ToString(k)

\* How sbatch can end, called for step k
SbatchResults(k) ==
    {[error |-> FALSE, returncode |-> 0, stdout |-> <<"Submitted", "batch", "job", JobIdOf(k)>>],
     [error |-> FALSE, returncode |-> 0, stdout |-> <<"sbatch:", "error">>],
     [error |-> FALSE, returncode |-> 1, stdout |-> <<>>],
     [error |-> FALSE, returncode |-> 1, stdout |-> <<"Submitted", "batch", "job", JobIdOf(k)>>],
     [error |-> TRUE, returncode |-> 0, stdout |-> <<>>]}

\* How squeue -j <id> can end: the job's line is printed while the job is
\* queued or running; the query can fail at any time.
SqueueResults(id, active) ==
    {[error |-> FALSE,
      stdout |-> <<"JOBID">> \o (IF \E k \in active : <<JobIdOf(k)>> = id THEN id ELSE <<>>)],
     [error |-> TRUE, stdout |-> <<>>]}

\* What a job leaves in the working directory: the chunk files
\* final_step .. final_step + n - 1 of a (NUM_CHUNKS, 1, 1) grid, one record each
JobChunk(fs, idx, num, good) ==
    IF good THEN File(<<GridHeader(<<num, 1, 1>>), Record(<<idx - fs + 1, 1, 1>>, ValuesA)>>)
    ELSE File(<<ShortHeader>>)
JobOutputs(fs, num) ==
    {[idx \in fs .. fs + num - 1 |-> JobChunk(fs, idx, num, TRUE)],
     [idx \in fs .. fs + num - 2 |-> JobChunk(fs, idx, num, TRUE)],
     [idx \in fs .. fs + num - 1 |-> JobChunk(fs, idx, num, idx > fs)]}
Overwrite(files, out) ==
    [x \in DOMAIN files \cup DOMAIN out |-> IF x \in DOMAIN out THEN out[x] ELSE files[x]]

BackupFaults == {"none", "makedirs", "copy_input", "copy_pxyz"}

Stages == <<"edit", "submit", "wait", "extract", "backup">>

\* No call of submit_job or extract_final_state yet
NoCalls == [fn |-> "none", submit_job |-> NoCall, extract_final_state |-> NoCall]

Init ==
    /\ NUM_CHUNKS \in 0 .. MaxChunks
    /\ \E ps \in StepLists : STEPS = StepConfig(ps)
    /\ input_file = OriginInput
    /\ pxyz \in {Absent, OldRestart}
    /\ dat = <<>>
    /\ backups = <<>>
    /\ pc = "start"
    /\ step_idx = 0
    /\ job_id = None
    /\ outcome = "running"
    /\ trace = <<>>
    /\ queue = [active |-> {}, polls |-> <<>>]
    /\ call = NoCalls

\* The run goes on with the stage `stage` of the step `k`
GoOn(k, stage) ==
    /\ pc' = stage
    /\ step_idx' = k
    /\ outcome' = outcome

\* run_sequential_steps ends: return True, return False, or an exception
Return(how) ==
    /\ pc' = "done"
    /\ step_idx' = step_idx
    /\ outcome' = how

\* for step_idx, step_config in enumerate(STEPS, 1), from the step after k on
Advance(k) ==
    IF NextStepIdx(k) \in 1 .. Len(STEPS) THEN GoOn(NextStepIdx(k), "edit")
    ELSE Return("True")

Log(stage, result) == trace' = Append(trace, <<step_idx, stage, result>>)

Begin ==
    /\ pc = "start"
    /\ Advance(0)
    /\ UNCHANGED <<STEPS, NUM_CHUNKS, job_id, trace, input_file, pxyz, dat, backups,
                   queue, call>>

\* [1/5] modify_input_params(step_config['params'])
EditStage ==
    /\ pc = "edit"
    /\ LET r == modify_input_params(input_file, STEPS[step_idx].params)
       IN  /\ input_file' = r.file
           /\ Log("edit", IF r.raised THEN "raised" ELSE "ok")
           /\ IF r.raised THEN Return("raised") ELSE GoOn(step_idx, "submit")
    /\ UNCHANGED <<STEPS, NUM_CHUNKS, job_id, pxyz, dat, backups, queue, call>>

\* [2/5] job_id = submit_job()
SubmitStage ==
    /\ pc = "submit"
    /\ \E res \in SbatchResults(step_idx) :
          LET r == submit_job(res)
              queued == ~res.error /\ res.returncode = 0 /\ HasMarker(res.stdout)
          IN  /\ job_id' = r.job_id
              /\ queue' = [active |-> queue.active \cup (IF queued THEN {step_idx} ELSE {}),
                           polls |-> <<>>]
              /\ call' = [call EXCEPT !.fn = "submit_job",
                                      !.submit_job = [fn |-> "submit_job", step |-> step_idx,
                                                      res |-> res, raised |-> r.raised,
                                                      job_id |-> r.job_id]]
              /\ Log("submit", IF r.raised THEN "raised"
                                ELSE IF r.job_id = None THEN "fail" ELSE "ok")
              /\ IF r.raised THEN Return("raised")
                 ELSE IF SubmitHalts(r.job_id) THEN Return("False")
                 ELSE GoOn(step_idx, "wait")
    /\ UNCHANGED <<STEPS, NUM_CHUNKS, input_file, pxyz, dat, backups>>

\* [3/5] wait_for_job_completion(job_id): one pass of "while True".  The job
\* is listed: sleep and poll again.  It is not: return True.
WaitStage ==
    /\ pc = "wait"
    /\ \E res \in SqueueResults(job_id, queue.active) :
          /\ queue' = [queue EXCEPT !.polls = Append(@, res)]
          /\ IF KeepWaiting(check_job_status(job_id, res), Len(queue.polls))
             THEN /\ Len(queue.polls) < MaxPolls
                  /\ UNCHANGED <<pc, step_idx, outcome, trace>>
             ELSE LET completed == wait_for_job_completion(res)
                  IN  /\ Log("wait", IF completed THEN "ok" ELSE "fail")
                      /\ IF WaitHalts(completed) THEN Return("False")
                         ELSE GoOn(step_idx, "extract")
    /\ UNCHANGED <<STEPS, NUM_CHUNKS, job_id, input_file, pxyz, dat, backups, call>>

\* A submitted job ends, leaving its chunk files
JobEnds ==
    /\ \E k \in queue.active :
          /\ \E out \in JobOutputs(STEPS[k].final_step, NUM_CHUNKS) :
                dat' = Overwrite(dat, out)
          /\ queue' = [queue EXCEPT !.active = @ \ {k}]
    /\ UNCHANGED <<STEPS, NUM_CHUNKS, pc, step_idx, job_id, outcome, trace, input_file,
                   pxyz, backups, call>>

\* [4/5] extract_final_state(step_config['final_step'])
ExtractStage ==
    /\ pc = "extract"
    /\ \E cut \in Cuts :
          \E r \in {extract_final_state(STEPS[step_idx].final_step, dat, NUM_CHUNKS, pxyz, cut)} :
              /\ pxyz' = r.pxyz
              /\ Log("extract", IF r.ret THEN "ok" ELSE "fail")
              /\ IF ExtractHalts(r.ret) THEN Return("False") ELSE GoOn(step_idx, "backup")
              /\ call' = [call EXCEPT !.fn = "extract_final_state",
                                      !.extract_final_state =
                                          [fn |-> "extract_final_state", step |-> step_idx,
                                           ret |-> r.ret, pxyz |-> r.pxyz]]
    /\ UNCHANGED <<STEPS, NUM_CHUNKS, job_id, input_file, dat, backups, queue>>

\* [5/5] backup_files(step_idx, step_config['name']), and on to the next step
BackupStage ==
    /\ pc = "backup"
    /\ \E fault \in BackupFaults :
          LET dir == BackupDir(step_idx)
              old == IF dir \in DOMAIN backups THEN backups[dir] ELSE NoBackup
              r == backup_files(old, input_file, pxyz, fault)
          IN  /\ backups' = [k \in DOMAIN backups \cup {dir} |->
                                IF k = dir THEN r.backup ELSE backups[k]]
              /\ Log("backup", IF r.raised THEN "raised" ELSE "ok")
              /\ IF r.raised THEN Return("raised") ELSE Advance(step_idx)
    /\ input_file' = CopySource(input_file)
    /\ pxyz' = CopySource(pxyz)
    /\ UNCHANGED <<STEPS, NUM_CHUNKS, job_id, dat, queue, call>>

Next ==
    \/ Begin
    \/ EditStage
    \/ SubmitStage
    \/ WaitStage
    \/ JobEnds
    \/ ExtractStage
    \/ BackupStage

Spec == Init /\ [][Next]_vars

\* The job waited for is in the scheduler's list of active jobs
JobListed == \E k \in queue.active : <<JobIdOf(k)>> = job_id

\* A poll of wait_for_job_completion when the job is not listed any more
WaitAbsent == ~JobListed /\ WaitStage

\* A step of the one thread that run_sequential_steps runs in
Progress == Begin \/ EditStage \/ SubmitStage \/ WaitAbsent \/ ExtractStage \/ BackupStage

\* The run as a process that keeps running: the stage that can be performed
\* is performed, and the wait polls again after every sleep, so that a job that
\* has left the list is found to have left it.  Every job that was submitted
\* ends at some time (fairness of JobEnds): without that nothing makes a wait end.
SpecLive ==
    /\ Init
    /\ [][Next]_vars
    /\ WF_vars(Progress)
    /\ WF_vars(JobEnds)

(***************************************************************************)
(* Properties of run_sequential_steps (Spec).                              *)
(***************************************************************************)
\* The stage the n-th entry of a run without retry or skip belongs to
StepAt(n) == ((n - 1) \div 5) + 1
StageAt(n) == Stages[((n - 1) % 5) + 1]

\* C1: once a stage of step k fails (submit_job returns None, the wait reports
\* failure, extract_final_state returns False), no further stage of step k or
\* of a later step is performed and the run ends with the result False.
C1_HaltOnFirstFailure ==
    \A n \in 1 .. Len(trace) :
        trace[n][3] = "fail" =>
            /\ n = Len(trace)
            /\ outcome = "False"
            /\ pc = "done"
            /\ step_idx = trace[n][1]

\* A run halted by a failed extraction in its second step, after a first step
\* that went through all five stages
C1_Witness ==
    /\ Len(trace) = 9
    /\ trace[9] = <<2, "extract", "fail">>
    /\ outcome = "False"

\* C2: the stages of a step run in the order edit, submit, wait, extract,
\* backup, the steps in the order of STEPS, a step starts only after the
\* backup of the step before it, and no stage is run twice or left out while
\* the run goes on.
C2_StageOrder ==
    /\ \A n \in 1 .. Len(trace) :
          /\ trace[n][1] = StepAt(n)
          /\ trace[n][2] = StageAt(n)
          /\ trace[n][1] \in 1 .. Len(STEPS)
          /\ n < Len(trace) => trace[n][3] = "ok"
    /\ pc \in {"edit", "submit", "wait", "extract", "backup"} =>
          /\ step_idx = StepAt(Len(trace) + 1)
          /\ pc = StageAt(Len(trace) + 1)
          /\ step_idx \in 1 .. Len(STEPS)

\* A run in the edit stage of its second step, the five stages of the first
\* step behind it
C2_Witness ==
    /\ pc = "edit"
    /\ step_idx = 2
    /\ Len(trace) = 5
    /\ trace[5] = <<1, "backup", "ok">>

\* Every step of STEPS went through its five stages
AllStagesCompleted ==
    /\ Len(trace) = 5 * Len(STEPS)
    /\ \A n \in 1 .. Len(trace) : trace[n] = <<StepAt(n), StageAt(n), "ok">>

\* C3: run_sequential_steps returns True exactly when every step of STEPS
\* went through its five stages: the edit, a submission that gave a job
\* identifier, a wait that ended, an extraction that returned True, a backup.
C3_SuccessIffAllStages ==
    /\ outcome = "True" => pc = "done" /\ AllStagesCompleted
    /\ pc = "done" /\ AllStagesCompleted => outcome = "True"

\* A run of two steps that returned True
C3_Witness ==
    /\ outcome = "True"
    /\ Len(STEPS) = 2
    /\ Len(trace) = 10

(***************************************************************************)
(* Properties of extract_final_state (SpecExtract).                        *)
(***************************************************************************)
Extracted == pc = "returned" /\ call.fn = "extract_final_state"

\* The chunk file of a rank, its header and its data records: the lines after
\* the header with six tokens or more
Ranks == 0 .. NUM_CHUNKS - 1
ChunkOf(rank) == FileAt(dat, STEPS[1].final_step + rank)
HeaderOf(rank) == IF ChunkOf(rank).lines = <<>> THEN <<>> ELSE ChunkOf(rank).lines[1]
RecordPlaces ==
    {pl \in Ranks \X (2 .. MaxLines + 1) :
        /\ pl[2] <= Len(ChunkOf(pl[1]).lines)
        /\ Len(ChunkOf(pl[1]).lines[pl[2]]) >= 6}
RecordAt(pl) == ChunkOf(pl[1]).lines[pl[2]]
Triple(line) == <<line[1], line[2], line[3]>>

\* The grid of the first chunk's header, 1-indexed
GridCells ==
    LET h == HeaderOf(0)
    IN  (1 .. py_int(h[1])) \X (1 .. py_int(h[2])) \X (1 .. py_int(h[3]))
CellTriple(c) == <<IntTok(c[1]), IntTok(c[2]), IntTok(c[3])>>

\* The data lines of pxyz.in
RestartData == 2 .. Len(pxyz.lines)

\* C4: a chunk file final_step + rank that is absent, or whose header line has
\* fewer than 3 tokens, makes extract_final_state return False and leaves
\* pxyz.in as it was (absent, or unchanged), whatever the chunks of lower rank.
C4_MissingChunkFails ==
    Extracted /\ (\E r \in Ranks : ~ChunkOf(r).exists \/ Len(HeaderOf(r)) < 3)
        => ~call.ret /\ pxyz = call.before

\* The second of two chunks is absent, the first was parsed with its record
C4_Witness ==
    /\ Extracted
    /\ NUM_CHUNKS = 2
    /\ ChunkOf(0) = File(<<GridHeader(<<2, 1, 1>>), Record(<<1, 1, 1>>, ValuesA)>>)
    /\ ~ChunkOf(1).exists
    /\ ~call.ret
    /\ pxyz = OldRestart

\* C5: whenever extract_final_state returns False, pxyz.in is absent or the
\* same as before the call.
C5_FailureLeavesRestart ==
    Extracted /\ ~call.ret => pxyz = call.before

\* The records of the chunk files cover the grid, every index triple once
ExactCover ==
    /\ NUM_CHUNKS >= 1
    /\ \A pl \in RecordPlaces : \E c \in GridCells : Triple(RecordAt(pl)) = CellTriple(c)
    /\ \A c \in GridCells :
          Cardinality({pl \in RecordPlaces : Triple(RecordAt(pl)) = CellTriple(c)}) = 1

\* C6: when the records of the chunk files cover the grid of the header with
\* every index triple exactly once, a successful extraction writes nx*ny*nz
\* data lines after the header, every index triple of the grid exactly once.
C6_CompleteGrid ==
    Extracted /\ call.ret /\ ExactCover
        => /\ Len(pxyz.lines) = 1 + Cardinality(GridCells)
           /\ \A c \in GridCells :
                 Cardinality({n \in RestartData : Triple(pxyz.lines[n]) = CellTriple(c)}) = 1

\* Two chunks with one record each cover a 2 x 1 x 1 grid
C6_Witness ==
    /\ Extracted
    /\ call.ret
    /\ ExactCover
    /\ NUM_CHUNKS = 2
    /\ Cardinality(GridCells) = 2
    /\ Len(ChunkOf(0).lines) = 2
    /\ Len(ChunkOf(1).lines) = 2

\* Index triple a comes before b in the order with i outermost, k innermost
LexLess(a, b) ==
    \/ a[1][2] < b[1][2]
    \/ a[1][2] = b[1][2] /\ a[2][2] < b[2][2]
    \/ a[1][2] = b[1][2] /\ a[2][2] = b[2][2] /\ a[3][2] < b[3][2]

\* C7: the data lines of the pxyz.in of a successful extraction are in the
\* lexicographic order of (i, j, k), 1-indexed, and the line of (i, j, k)
\* carries px, py, pz of the record with that index triple, in the format
\* {:.5e}, whichever chunk file and line the record stands in.
C7_OrderAndValues ==
    Extracted /\ call.ret
        => /\ \A n \in RestartData : \E c \in GridCells : Triple(pxyz.lines[n]) = CellTriple(c)
           /\ \A m, n \in RestartData :
                 m < n => LexLess(Triple(pxyz.lines[m]), Triple(pxyz.lines[n]))
           /\ \A n \in RestartData : \A pl \in RecordPlaces :
                 /\ Triple(RecordAt(pl)) = Triple(pxyz.lines[n])
                 /\ \A other \in RecordPlaces :
                       Triple(RecordAt(other)) = Triple(RecordAt(pl)) => other = pl
                 => /\ pxyz.lines[n][4] = format_5e(py_float(RecordAt(pl)[4]))
                    /\ pxyz.lines[n][5] = format_5e(py_float(RecordAt(pl)[5]))
                    /\ pxyz.lines[n][6] = format_5e(py_float(RecordAt(pl)[6]))

\* The only record stands in the second chunk, behind a short line, and its
\* values are on the line of its grid point of a 1 x 2 x 2 grid
C7_Witness ==
    /\ Extracted
    /\ call.ret
    /\ NUM_CHUNKS = 2
    /\ HeaderOf(0) = GridHeader(<<1, 2, 2>>)
    /\ ChunkOf(1).lines = <<GridHeader(<<1, 2, 2>>), ShortLine, Record(<<1, 1, 1>>, ValuesB)>>
    /\ Len(pxyz.lines) = 5
    /\ pxyz.lines[2] = <<IntTok(1), IntTok(1), IntTok(1),
                         SciTok(150000, 0), SciTok(123457, 6), SciTok(0, 0)>>

\* C8: a chunk file whose header differs from the first chunk's in (nx, ny, nz)
\* makes extract_final_state return False, and no pxyz.in is written.
C8_HeaderMismatchFails ==
    Extracted /\ (\E r \in Ranks :
                     /\ ChunkOf(0).exists /\ Len(HeaderOf(0)) >= 3
                     /\ ChunkOf(r).exists /\ Len(HeaderOf(r)) >= 3
                     /\ Triple(HeaderOf(r)) # Triple(HeaderOf(0)))
        => ~call.ret /\ pxyz = call.before

(***************************************************************************)
(* Properties of modify_input_params (SpecEdit).                           *)
(***************************************************************************)
Edited == pc = "returned" /\ call.fn = "modify_input_params"

LinesBefore == read_input_file(call.before)
LinesAfter == read_input_file(input_file)
EditedLines == {STEPS[1].params[n][1] : n \in 1 .. Len(STEPS[1].params)}
ContentFor(l) ==
    LET n == CHOOSE x \in 1 .. Len(STEPS[1].params) : STEPS[1].params[x][1] = l
    IN  STEPS[1].params[n][2]

\* The edits all name a line of the file
EditsInRange == call.before.exists /\ EditedLines \subseteq 1 .. Len(LinesBefore)

\* C9: after edits whose line indices all lie between 1 and the file's line
\* count, the file has as many lines as before and every line no edit names is
\* the same as before.
C9_OtherLinesKept ==
    Edited /\ EditsInRange
        => /\ ~call.raised
           /\ Len(LinesAfter) = Len(LinesBefore)
           /\ \A l \in (1 .. Len(LinesBefore)) \ EditedLines : LinesAfter[l] = LinesBefore[l]

\* The first of two lines is edited, the second, which has a comment, is not
C9_Witness ==
    /\ Edited
    /\ EditsInRange
    /\ EditedLines = {1}
    /\ call.before.text = <<"a", "\n", "a", " ", "!", "b", "\n">>
    /\ input_file.text = <<"c", "\n", "a", " ", "!", "b", "\n">>

\* C10: an edited line that held a '!' becomes the replacement text, one
\* space, and the old line from its first '!' to its end; an edited line
\* without '!' becomes the replacement text and a line terminator.
C10_EditedLine ==
    Edited /\ EditsInRange
        => \A l \in EditedLines :
              LET old == LinesBefore[l]
                  new == LinesAfter[l]
                  bangs == {n \in 1 .. Len(old) : old[n] = "!"}
              IN  IF bangs # {}
                  THEN \E b \in bangs :
                          /\ \A n \in bangs : b <= n
                          /\ new = ContentFor(l) \o <<" ">> \o SubSeq(old, b, Len(old))
                  ELSE new = ContentFor(l) \o <<"\n">>

\* A line with two '!' is edited to a text that holds a '!' itself
C10_Witness ==
    /\ Edited
    /\ EditsInRange
    /\ 1 \in EditedLines
    /\ ContentFor(1) = <<"c", "!", "d">>
    /\ LinesBefore[1] = <<"!", "a", "!", "b", "\n">>
    /\ LinesAfter[1] = <<"c", "!", "d", " ", "!", "a", "!", "b", "\n">>

\* Some edit names a line past the end of the file
EditPastEnd == call.before.exists /\ \E l \in EditedLines : l > Len(LinesBefore)

\* C11: when an edit of the set names a line index greater than the file's
\* line count, modify_input_params raises (IndexError) and the parameter file
\* is the same as before the call, whatever edits of the set came before the
\* one out of range.
C11_OutOfRangeEdit ==
    Edited /\ EditPastEnd => call.raised /\ input_file = call.before

\* The first edit names line 1 of a one-line file, the second names line 2
C11_Witness ==
    /\ Edited
    /\ call.before.text = <<"a", " ", "!", "b", "\n">>
    /\ STEPS[1].params = << <<1, <<"c">>>>, <<2, <<"c">>>> >>
    /\ call.raised
    /\ input_file = call.before

(***************************************************************************)
(* Properties of the stages of a run (Spec).                               *)
(***************************************************************************)
\* sbatch exited with status zero and its output holds the marker phrase
Acknowledged(res) ==
    /\ ~res.error
    /\ res.returncode = 0
    /\ \E n \in 1 .. Len(res.stdout) - 2 :
          <<res.stdout[n], res.stdout[n + 1], res.stdout[n + 2]>> = <<"Submitted", "batch", "job">>

\* C12: the run is in the wait stage of step k only with a job identifier
\* that is the last word of an sbatch output of step k which held the marker
\* phrase and came with exit status zero; after an sbatch without the marker
\* or with a non-zero exit status submit_job returned None and the run ended
\* with False at step k, the submit stage its last stage.
C12_WaitOnlyWithJobId ==
    LET c == call.submit_job
    IN  /\ pc = "wait" =>
              /\ c.fn = "submit_job"
              /\ c.step = step_idx
              /\ Acknowledged(c.res)
              /\ job_id = <<c.res.stdout[Len(c.res.stdout)]>>
        /\ call.fn = "submit_job" /\ ~Acknowledged(c.res) =>
              /\ pc = "done"
              /\ step_idx = c.step
              /\ trace[Len(trace)][1] = c.step
              /\ trace[Len(trace)][2] = "submit"
              /\ ~c.res.error => c.job_id = None /\ outcome = "False"

\* The second step's sbatch printed no marker phrase, after a first step that
\* waited for its job: the run ended there
C12_Witness ==
    /\ call.fn = "submit_job"
    /\ call.submit_job.step = 2
    /\ call.submit_job.res.returncode = 0
    /\ call.submit_job.res.stdout = <<"sbatch:", "error">>
    /\ Len(trace) = 7
    /\ trace[3] = <<1, "wait", "ok">>
    /\ outcome = "False"

\* The query result res holds the identifier of the job waited for
Reported(res) == ~res.error /\ \E n \in 1 .. Len(res.stdout) : <<res.stdout[n]>> = job_id

\* The wait stage is the last stage that finished
WaitReturned == Len(trace) > 0 /\ trace[Len(trace)][2] = "wait"

\* C13: while wait_for_job_completion has not returned, every poll so far
\* found the job identifier in the query result; when it has returned, its
\* last poll was the first whose query result did not hold the identifier, a
\* query that raised an error counting as one that did not.
C13_WaitEndsAtFirstAbsent ==
    /\ pc = "wait" => \A n \in 1 .. Len(queue.polls) : Reported(queue.polls[n])
    /\ WaitReturned =>
          /\ Len(queue.polls) >= 1
          /\ ~Reported(queue.polls[Len(queue.polls)])
          /\ \A n \in 1 .. Len(queue.polls) - 1 : Reported(queue.polls[n])

\* A wait that one poll found the job listed and a failed query ended, the job
\* still in the scheduler's list
C13_Witness ==
    /\ WaitReturned
    /\ step_idx = 1
    /\ 1 \in queue.active
    /\ Len(queue.polls) = 2
    /\ Reported(queue.polls[1])
    /\ queue.polls[2].error
    /\ pc = "extract"

\* C14: after a filesystem error in the backup stage of step k (os.makedirs
\* or shutil.copy2 raising) the run goes on: it is in a stage of step k + 1,
\* or, k being the last step, it returned True.
C14_BackupErrorGoesOn ==
    \A n \in 1 .. Len(trace) :
        trace[n][2] = "backup" /\ trace[n][3] = "raised" =>
            IF trace[n][1] < Len(STEPS)
            THEN \/ n < Len(trace) /\ trace[n + 1][1] = trace[n][1] + 1
                 \/ n = Len(trace) /\ pc = "edit" /\ step_idx = trace[n][1] + 1
            ELSE outcome = "True"

\* Step j went through its backup stage
StepCompleted(j) == \E n \in 1 .. Len(trace) : trace[n] = <<j, "backup", "ok">>

\* C15: the step that completes step j leaves in step j's backup directory
\* the parameter file and the restart file as they are at that moment, and no
\* step of the run after that creates, changes or removes anything in it.
C15_BackupsKept ==
    [][/\ \A j \in 1 .. Len(STEPS) :
             StepCompleted(j) => j \in DOMAIN backups' /\ backups'[j] = backups[j]
       /\ \A j \in 1 .. Len(STEPS) :
             ~StepCompleted(j) /\ trace' = Append(trace, <<j, "backup", "ok">>) =>
                 /\ j \in DOMAIN backups'
                 /\ input_file'.exists
                 /\ pxyz'.exists
                 /\ backups'[j] = [dir |-> TRUE, input |-> input_file', pxyz |-> pxyz']]_vars

\* The run halted in the extraction of step 2, which left another pxyz.in
\* behind, after an edit of the parameter file; the backup of step 1 holds
\* the two files of step 1
C15_Witness ==
    /\ StepCompleted(1)
    /\ Len(trace) = 9
    /\ trace[9] = <<2, "extract", "fail">>
    /\ pc = "done"
    /\ backups[1].dir
    /\ backups[1].input = OriginInput
    /\ backups[1].input # input_file
    /\ backups[1].pxyz.exists
    /\ backups[1].pxyz # pxyz

\* C16: when the job of a step k >= 2 is about to be submitted, is submitted
\* and is waited for, pxyz.in is the file that the extraction of step k - 1
\* wrote when it returned True: nothing has written it since.
C16_RestartAtSubmit ==
    pc \in {"edit", "submit", "wait"} /\ step_idx >= 2 =>
        LET e == call.extract_final_state
        IN  /\ e.fn = "extract_final_state"
            /\ e.step = step_idx - 1
            /\ e.ret
            /\ pxyz = e.pxyz

\* The job of step 2 is submitted and waited for; the run started with the
\* pxyz.in of an earlier run, which the extraction of step 1 replaced
C16_Witness ==
    /\ pc = "wait"
    /\ step_idx = 2
    /\ 2 \in queue.active
    /\ call.fn = "submit_job"
    /\ call.extract_final_state.step = 1
    /\ pxyz = call.extract_final_state.pxyz
    /\ pxyz # OldRestart
    /\ Len(pxyz.lines) = 3

\* C17: when the process is terminated while extract_final_state writes the
\* restart file, pxyz.in is the complete file of before the call or the
\* complete new file, never a truncated or partly written one.
C17_AtomicRestart ==
    pc = "killed" => pxyz = call.before \/ pxyz = call.new

\* C18: the wait has no timeout: whatever the number of polls so far, the
\* wait stage is left only by a poll whose query result does not hold the job
\* identifier (a job that stays listed keeps the run in the wait stage), and
\* when every job that was submitted leaves the list at some time, the run
\* reaches its end: all steps completed, or halted.
C18_NoTimeout ==
    /\ [][pc = "wait" /\ pc' # "wait" =>
              LET res == queue'.polls[Len(queue'.polls)]
              IN  res.error \/ \A n \in 1 .. Len(res.stdout) : <<res.stdout[n]>> # job_id]_vars
    /\ <>(pc = "done")

\* The job is still listed after as many polls as the model follows, the run
\* still in the wait stage
C18_Witness ==
    /\ pc = "wait"
    /\ JobListed
    /\ Len(queue.polls) = MaxPolls
    /\ \A n \in 1 .. Len(queue.polls) : Reported(queue.polls[n])

\* C19: wait_for_job_completion returns nothing but True: no wait stage ends
\* as a failure, and a run that returned False did so right after a submit
\* stage or an extract stage that failed.
C19_WaitNeverFails ==
    /\ \A n \in 1 .. Len(trace) : trace[n][2] = "wait" => trace[n][3] = "ok"
    /\ outcome = "False" =>
          /\ Len(trace) > 0
          /\ trace[Len(trace)][2] \in {"submit", "extract"}
          /\ trace[Len(trace)][3] = "fail"

\* A failed query ended the wait while the job was still listed; the wait
\* counted as completed and the run returned False in the extraction
C19_Witness ==
    /\ Len(trace) = 4
    /\ trace[3] = <<1, "wait", "ok">>
    /\ queue.polls # <<>>
    /\ queue.polls[Len(queue.polls)].error
    /\ 1 \in queue.active
    /\ trace[4] = <<1, "extract", "fail">>
    /\ outcome = "False"

(***************************************************************************)
(* Grid coverage (SpecExtract).                                            *)
(***************************************************************************)
\* All chunk files are there and their headers are three dimensions
ValidChunks ==
    /\ NUM_CHUNKS >= 1
    /\ \A r \in Ranks :
          /\ ChunkOf(r).exists
          /\ Len(HeaderOf(r)) >= 3
          /\ \A n \in 1 .. 3 : IsIntText(HeaderOf(r)[n]) /\ py_int(HeaderOf(r)[n]) >= 0

\* Every data line of six tokens or more is a record of the chunk format: a
\* point of the grid and three numbers
RecordsOfGrid ==
    \A pl \in RecordPlaces :
        /\ \E c \in GridCells : Triple(RecordAt(pl)) = CellTriple(c)
        /\ \A n \in 4 .. 6 : IsFloatText(RecordAt(pl)[n])

\* No record supplies the grid point c
Uncovered(c) == \A pl \in RecordPlaces : Triple(RecordAt(pl)) # CellTriple(c)

\* C20: when all chunk files exist with valid headers, their data lines are
\* records of the grid or lines of fewer than 6 tokens, and some grid point is
\* supplied by no record, extract_final_state (its write of pxyz.in not
\* failing) returns True, and pxyz.in has one line for that grid point, with
\* the three values 0.00000e+00.
C20_NoCoverageCheck ==
    Extracted /\ call.cut < 0 /\ ValidChunks /\ RecordsOfGrid
        => \A c \in GridCells :
              Uncovered(c) =>
                  /\ call.ret
                  /\ \E n \in RestartData :
                        /\ Triple(pxyz.lines[n]) = CellTriple(c)
                        /\ \A m \in RestartData :
                              Triple(pxyz.lines[m]) = CellTriple(c) => m = n
                        /\ pxyz.lines[n][4] = SciTok(0, 0)
                        /\ pxyz.lines[n][5] = SciTok(0, 0)
                        /\ pxyz.lines[n][6] = SciTok(0, 0)

\* A 1 x 2 x 2 grid: the first chunk holds the record of (1, 1, 1), the second
\* a line of five tokens; the line of (1, 2, 2) holds zeros
C20_Witness ==
    /\ Extracted
    /\ call.ret
    /\ NUM_CHUNKS = 2
    /\ ChunkOf(0).lines = <<GridHeader(<<1, 2, 2>>), Record(<<1, 1, 1>>, ValuesA)>>
    /\ ChunkOf(1).lines = <<GridHeader(<<1, 2, 2>>), ShortLine>>
    /\ Uncovered(<<1, 2, 2>>)
    /\ pxyz.lines[5] = <<IntTok(1), IntTok(2), IntTok(2), SciTok(0, 0), SciTok(0, 0), SciTok(0, 0)>>

====
